---- MODULE Spec2Model ----
(***************************************************************************)
(* Streaming triage pipeline of src/main.py: the tailing loop of run(),    *)
(* get_latest_resources(), get_guidelines() and triage_patient() with its  *)
(* rule-based fallback, together with the external producers of the input  *)
(* and resource logs.                                                      *)
(*                                                                         *)
(* Text that the code inspects character by character (symptoms, error     *)
(* messages) is a sequence of one-character strings.  A JSON scalar is a   *)
(* record [t, v]; a JSON object is [t |-> "obj", o |-> f] with f a         *)
(* function from its keys, so that a missing key is a key outside          *)
(* DOMAIN f.  A line of a file is [kind, val]: blank, text that is not     *)
(* JSON, or the text of the JSON value val.                                *)
(***************************************************************************)
EXTENDS Integers, Sequences, FiniteSets, TLC

\* Bounds of the model
MaxLines == 2
MaxRes == 1

----------------------------------------------------------------------------
\* Character data

\* "chest pain" (10 characters)
KwChestPain ==
  <<"c","h","e","s","t"," ","p","a","i","n">>
\* "severe" (6 characters)
KwSevere ==
  <<"s","e","v","e","r","e">>
\* "difficulty breathing" (20 characters)
KwDifficultyBreathing ==
  <<"d","i","f","f","i","c","u","l","t","y"," ","b","r","e","a","t","h","i","n","g">>
\* "broken" (6 characters)
KwBroken ==
  <<"b","r","o","k","e","n">>
\* "fracture" (8 characters)
KwFracture ==
  <<"f","r","a","c","t","u","r","e">>
\* "Severe headache, slurred speech" (31 characters)
SymP2001 ==
  <<"S","e","v","e","r","e"," ","h","e","a","d","a","c","h","e",","," ","s","l","u","r","r","e","d"," ","s","p","e","e","c","h">>
\* "Broken thumb" (12 characters)
SymP2002 ==
  <<"B","r","o","k","e","n"," ","t","h","u","m","b">>
\* "Asthma attack, difficulty breathing" (35 characters)
SymP2003 ==
  <<"A","s","t","h","m","a"," ","a","t","t","a","c","k",","," ","d","i","f","f","i","c","u","l","t","y"," ","b","r","e","a","t","h","i","n","g">>
\* "Mild cough" (10 characters)
SymMildCough ==
  <<"M","i","l","d"," ","c","o","u","g","h">>
\* "Severe fracture" (15 characters)
SymSevereFracture ==
  <<"S","e","v","e","r","e"," ","f","r","a","c","t","u","r","e">>
\* "CHEST PAIN" (10 characters)
SymChestPainUpper ==
  <<"C","H","E","S","T"," ","P","A","I","N">>
\* "Unbroken skin" (13 characters)
SymUnbroken ==
  <<"U","n","b","r","o","k","e","n"," ","s","k","i","n">>
\* "Sever" (5 characters)
SymSever ==
  <<"S","e","v","e","r">>
\* "Connection error." (17 characters)
MsgConnection ==
  <<"C","o","n","n","e","c","t","i","o","n"," ","e","r","r","o","r",".">>
\* "Error code: 429 - You exceeded your current quota, please check your plan" (73 characters)
MsgQuota ==
  <<"E","r","r","o","r"," ","c","o","d","e",":"," ","4","2","9"," ","-"," ","Y","o","u"," ","e","x","c","e","e","d","e","d"," ","y","o","u","r"," ","c","u","r","r","e","n","t"," ","q","u","o","t","a",","," ","p","l","e","a","s","e"," ","c","h","e","c","k"," ","y","o","u","r"," ","p","l","a","n">>
\* "Expecting value: line 1 column 1 (char 0)" (41 characters)
MsgJSONDecode ==
  <<"E","x","p","e","c","t","i","n","g"," ","v","a","l","u","e",":"," ","l","i","n","e"," ","1"," ","c","o","l","u","m","n"," ","1"," ","(","c","h","a","r"," ","0",")">>\* "the JSON object must be str, bytes or bytearray, not NoneType" (61 characters)
MsgTypeError ==
  <<"t","h","e"," ","J","S","O","N"," ","o","b","j","e","c","t"," ","m","u","s","t"," ","b","e"," ","s","t","r",","," ","b","y","t","e","s"," ","o","r"," ","b","y","t","e","a","r","r","a","y",","," ","n","o","t"," ","N","o","n","e","T","y","p","e">>

\* "sk-live": a configured credential
KeyLive ==
  <<"s","k","-","l","i","v","e">>

UpperChars ==
  <<"A","B","C","D","E","F","G","H","I","J","K","L","M",
    "N","O","P","Q","R","S","T","U","V","W","X","Y","Z">>
LowerChars ==
  <<"a","b","c","d","e","f","g","h","i","j","k","l","m",
    "n","o","p","q","r","s","t","u","v","w","x","y","z">>

\* str.lower() on one character
LowerChar(c) ==
  IF \E i \in 1..26 : UpperChars[i] = c
  THEN LowerChars[CHOOSE i \in 1..26 : UpperChars[i] = c]
  ELSE c

\* str.lower()
Lower(s) ==
  [i \in 1..Len(s) |-> LowerChar(s[i])]

\* Python's `needle in hay` on strings
Contains(hay, needle) ==
  \E i \in 0..(Len(hay) - Len(needle)) :
     \A j \in 1..Len(needle) : hay[i + j] = needle[j]

\* Python's s[:n]
Take(s, n) ==
  SubSeq(s, 1, IF Len(s) < n THEN Len(s) ELSE n)

----------------------------------------------------------------------------
\* JSON values, lines of text and json.loads

Null == [t |-> "null", v |-> <<>>]
Str(s) == [t |-> "str", v |-> s]
Num(s) == [t |-> "num", v |-> s]
Obj(f) == [t |-> "obj", o |-> f]
Arr == [t |-> "arr", o |-> <<>>]
EmptyObj == Obj(<<>>)

BlankLine == [kind |-> "blank", val |-> Null]
GarbageLine == [kind |-> "garbage", val |-> Null]
JsonLine(v) == [kind |-> "json", val |-> v]
\* message.content of an answer without text: None
NoneContent == [kind |-> "none", val |-> Null]

\* a returned value, or a raised exception with its str()
Ok(v) == [exc |-> "none", val |-> v, msg |-> <<>>]
Raise(e, m) == [exc |-> e, val |-> Null, msg |-> m]

\* json.loads(line): the value the text denotes, or JSONDecodeError
JsonLoads(line) ==
  IF line.kind = "json" THEN Ok(line.val)
  ELSE IF line.kind = "none" THEN Raise("TypeError", MsgTypeError)
  ELSE Raise("JSONDecodeError", MsgJSONDecode)

\* json.dumps(value) + "\n"
JsonDumps(v) == JsonLine(v)

\* line.strip() is empty
IsBlank(line) == line.kind = "blank"

\* dict.get(key): None when the key is missing
Get(d, key) ==
  IF key \in DOMAIN d.o THEN d.o[key] ELSE Null

\* dict.get(key, default)
GetDefault(d, key, default) ==
  IF key \in DOMAIN d.o THEN d.o[key] ELSE default

\* truth value of os.environ.get("OPENAI_API_KEY")
Truthy(x) == x.t = "str" /\ Len(x.v) > 0

----------------------------------------------------------------------------
\* get_latest_resources

RECURSIVE LastNonBlank(_)
\* the `for line in f` loop: index of the last line with line.strip(), 0 if none
LastNonBlank(file) ==
  IF file = <<>> THEN 0
  ELSE IF ~IsBlank(file[Len(file)]) THEN Len(file)
  ELSE LastNonBlank(SubSeq(file, 1, Len(file) - 1))

\* get_latest_resources(): readable = FALSE is open() raising OSError
get_latest_resources(exists, file, readable) ==
  IF ~exists THEN Ok(EmptyObj)
  ELSE IF ~readable THEN Raise("OSError", <<>>)
  ELSE IF LastNonBlank(file) = 0 THEN Ok(EmptyObj)
  ELSE JsonLoads(file[LastNonBlank(file)])

\* get_guidelines(): the text of the file, "" when it is missing
get_guidelines(exists) ==
  IF exists THEN "guidelines.md" ELSE ""

----------------------------------------------------------------------------
\* triage_patient

Priorities == {"Low", "Medium", "High", "Critical"}

\* the f-string prompt: resources.get and patient_data.get are evaluated
\* before the credential check and outside the try block
BuildPrompt(patient_data, guidelines_text, resources) ==
  IF resources.t # "obj" THEN Raise("AttributeError", <<>>)
  ELSE Ok(Obj([guidelines |-> guidelines_text,
               icu_beds_available |-> GetDefault(resources, "icu_beds_available", Str(<<"U","n","k","n","o","w","n">>)),
               doctors_on_call |-> GetDefault(resources, "doctors_on_call", Arr),
               nurses_available |-> GetDefault(resources, "nurses_available", Str(<<"U","n","k","n","o","w","n">>)),
               patient_id |-> Get(patient_data, "patient_id"),
               name |-> Get(patient_data, "name"),
               symptoms |-> Get(patient_data, "symptoms")]))

\* FallbackRules with the fracture rule tested before the critical rule
FallbackRules_FractureFirst(symptoms) ==
  IF Contains(symptoms, KwBroken) \/ Contains(symptoms, KwFracture)
  THEN [priority |-> "Medium",
        reasoning |-> "Fallback: Potential fracture detected.",
        icu_req |-> "No"]
  ELSE IF \/ Contains(symptoms, KwChestPain)
          \/ Contains(symptoms, KwSevere)
          \/ Contains(symptoms, KwDifficultyBreathing)
  THEN [priority |-> "Critical",
        reasoning |-> "Fallback: Critical keywords detected in symptoms.",
        icu_req |-> "Yes"]
  ELSE [priority |-> "Low",
        reasoning |-> "Fallback: Minor symptoms detected.",
        icu_req |-> "No"]

\* the keyword rules of the fallback, on the lower-cased symptoms
FallbackRules(symptoms) ==
  IF \/ Contains(symptoms, KwChestPain)
     \/ Contains(symptoms, KwSevere)
     \/ Contains(symptoms, KwDifficultyBreathing)
  THEN [priority |-> "Critical",
        reasoning |-> "Fallback: Critical keywords detected in symptoms.",
        icu_req |-> "Yes"]
  ELSE IF Contains(symptoms, KwBroken) \/ Contains(symptoms, KwFracture)
  THEN [priority |-> "Medium",
        reasoning |-> "Fallback: Potential fracture detected.",
        icu_req |-> "No"]
  ELSE [priority |-> "Low",
        reasoning |-> "Fallback: Minor symptoms detected.",
        icu_req |-> "No"]

\* FallbackDecision comparing the priority with "critical" in lower case:
\* the alert level is never Urgent
FallbackDecision_LowerCaseCompare(patient_data, r, error_msg) ==
  Obj("Patient Summary" :>
        ("ID" :> Get(patient_data, "patient_id") @@
         "Name" :> Get(patient_data, "name")) @@
      "Triage Decision" :>
        ("Priority Level" :> r.priority @@
         "Reasoning" :> [text |-> r.reasoning,
                         suffix |-> " (Auto-generated due to LLM Error: ",
                         err |-> Take(error_msg, 50)]) @@
      "Resource Decision" :>
        ("ICU Required" :> r.icu_req @@
         "ICU Assigned" :> "Pending Check" @@
         "Doctor Assigned" :> "On Call" @@
         "Nurse Assigned" :> "Next Available") @@
      "Alerts" :>
        ("Alert Level" :> (IF r.priority = "critical" THEN "Urgent" ELSE "Normal") @@
         "Alert Message" :> [text |-> "System Alert: Fallback mode used for ",
                             name |-> Get(patient_data, "name")]))

\* the decision dict built by the except block
FallbackDecision(patient_data, r, error_msg) ==
  Obj("Patient Summary" :>
        ("ID" :> Get(patient_data, "patient_id") @@
         "Name" :> Get(patient_data, "name")) @@
      "Triage Decision" :>
        ("Priority Level" :> r.priority @@
         "Reasoning" :> [text |-> r.reasoning,
                         suffix |-> " (Auto-generated due to LLM Error: ",
                         err |-> Take(error_msg, 50)]) @@
      "Resource Decision" :>
        ("ICU Required" :> r.icu_req @@
         "ICU Assigned" :> "Pending Check" @@
         "Doctor Assigned" :> "On Call" @@
         "Nurse Assigned" :> "Next Available") @@
      "Alerts" :>
        ("Alert Level" :> (IF r.priority = "Critical" THEN "Urgent" ELSE "Normal") @@
         "Alert Message" :> [text |-> "System Alert: Fallback mode used for ",
                             name |-> Get(patient_data, "name")]))

\* the except block: .lower() on a symptoms value that is not a string
\* raises AttributeError inside the handler
Fallback(patient_data, error_msg) ==
  LET s == GetDefault(patient_data, "symptoms", Str(<<>>)) IN
  IF s.t # "str" THEN Raise("AttributeError", <<>>)
  ELSE Ok(FallbackDecision(patient_data, FallbackRules(Lower(s.v)), error_msg))

\* the dict returned when no credential is configured
ErrorRecord(patient_data) ==
  Obj([error |-> "OPENAI_API_KEY not set",
       patient_id |-> Get(patient_data, "patient_id")])

\* triage_patient(patient_data, guidelines_text, resources) under the
\* credential api_key and the service's answer response: either
\* [k |-> "raise", msg] (create() raises) or [k |-> "content", line]
triage_patient(patient_data, guidelines_text, resources, api_key, response) ==
  LET prompt == BuildPrompt(patient_data, guidelines_text, resources) IN
  IF prompt.exc # "none" THEN prompt
  ELSE IF ~Truthy(api_key) THEN Ok(ErrorRecord(patient_data))
  ELSE IF response.k = "raise" THEN Fallback(patient_data, response.msg)
  ELSE LET parsed == JsonLoads(response.line) IN
       IF parsed.exc = "none" THEN parsed
       ELSE Fallback(patient_data, parsed.msg)

\* whether triage_patient reaches client.chat.completions.create
CallsService(resources, api_key) ==
  resources.t = "obj" /\ Truthy(api_key)

----------------------------------------------------------------------------
\* Inputs: patient records, resource snapshots, answers of the service

\* the three records of simulate_data.patients
P2001 ==
  Obj([patient_id |-> Str(<<"P","2","0","0","1">>), name |-> Str(<<"A","l","i","c","e"," ","W","o","n","d","e","r","l","a","n","d">>),
       symptoms |-> Str(SymP2001), vitals |-> Obj([hr |-> Num(<<"9","0">>)]), labs |-> EmptyObj])
P2002 ==
  Obj([patient_id |-> Str(<<"P","2","0","0","2">>), name |-> Str(<<"B","o","b"," ","B","u","i","l","d","e","r">>),
       symptoms |-> Str(SymP2002), vitals |-> Obj([hr |-> Num(<<"8","0">>)]), labs |-> EmptyObj])
P2003 ==
  Obj([patient_id |-> Str(<<"P","2","0","0","3">>), name |-> Str(<<"C","h","a","r","l","i","e"," ","B","r","o","w","n">>),
       symptoms |-> Str(SymP2003), vitals |-> Obj([hr |-> Num(<<"1","2","0">>)]), labs |-> EmptyObj])

\* a patient object with the given symptoms value
PatientWith(sym) ==
  Obj([patient_id |-> Str(<<"P","3","0","0","1">>), name |-> Str(<<"D","a","n","a">>), symptoms |-> sym])

\* {"patient_id": "P3002", "name": "Eli"}: no symptoms key
PNoSymptoms ==
  Obj([patient_id |-> Str(<<"P","3","0","0","2">>), name |-> Str(<<"E","l","i">>)])

\* {"patient_id": "P3001", "name": "Dana", "symptoms": null}
PNullSymptoms == PatientWith(Null)

\* {"symptoms": "Severe fracture"}: no id, no name
PAnonymous ==
  Obj([symptoms |-> Str(SymSevereFracture)])

\* resource snapshots as written to resources.jsonl
ResA ==
  Obj([icu_beds_available |-> Num(<<"2">>), doctors_on_call |-> Arr, nurses_available |-> Num(<<"5">>)])
ResB ==
  Obj([icu_beds_available |-> Num(<<"0">>), doctors_on_call |-> Arr, nurses_available |-> Num(<<"3">>)])

\* a decision of the shape the prompt asks for, as the service would write it
ServiceDecision(patient_data, priority) ==
  Obj("Patient Summary" :>
        ("ID" :> Get(patient_data, "patient_id") @@
         "Name" :> Get(patient_data, "name")) @@
      "Triage Decision" :>
        ("Priority Level" :> priority @@
         "Reasoning" :> [text |-> "Assessed from vitals and symptoms.",
                         suffix |-> "", err |-> <<>>]) @@
      "Resource Decision" :>
        ("ICU Required" :> "No" @@
         "ICU Assigned" :> "None" @@
         "Doctor Assigned" :> "Dr. Smith" @@
         "Nurse Assigned" :> "Nurse Joy") @@
      "Alerts" :>
        ("Alert Level" :> "Normal" @@
         "Alert Message" :> [text |-> "No alert for ",
                             name |-> Get(patient_data, "name")]))

\* valid JSON that is not a decision: {"answer": "I cannot help with that"}
OffShape ==
  Obj([answer |-> Str(<<"I"," ","c","a","n","n","o","t"," ","h","e","l","p">>)])

ServiceRaise(m) == [k |-> "raise", msg |-> m, line |-> BlankLine]
ServiceContent(l) == [k |-> "content", msg |-> <<>>, line |-> l]

\* what client.chat.completions.create can do for a patient
AllResponses(patient_data) ==
  { ServiceRaise(MsgConnection),
    ServiceRaise(MsgQuota),
    ServiceContent(GarbageLine),
    ServiceContent(NoneContent),
    ServiceContent(JsonLine(ServiceDecision(patient_data, "High"))),
    ServiceContent(JsonLine(ServiceDecision(patient_data, "Extreme"))),
    ServiceContent(JsonLine(OffShape)) }

\* the answers drawn in the runs of the whole pipeline
Responses(patient_data) ==
  { ServiceRaise(MsgQuota),
    ServiceContent(GarbageLine),
    ServiceContent(JsonLine(ServiceDecision(patient_data, "High"))),
    ServiceContent(JsonLine(OffShape)) }

\* lines an external producer appends to patients.jsonl
InputLines ==
  { BlankLine, GarbageLine, JsonLine(Arr),
    JsonLine(P2001), JsonLine(P2002), JsonLine(PNullSymptoms), JsonLine(PNoSymptoms) }

\* lines an external writer appends to resources.jsonl
ResourceLines ==
  { BlankLine, GarbageLine, JsonLine(Arr), JsonLine(ResA), JsonLine(ResB) }

\* values of OPENAI_API_KEY in the environment of run()
ApiKeys == { Null, Str(KeyLive) }

----------------------------------------------------------------------------
\* State

VARIABLES
  patientsExists, \* os.path.exists(PATIENTS_FILE)
  inFile,         \* lines of patients.jsonl
  resExists,      \* os.path.exists(RESOURCES_FILE)
  resFile,        \* lines of resources.jsonl
  apiKey,         \* os.environ.get("OPENAI_API_KEY")
  pc,             \* position of run(): run, readline, context, triage, persist, crashed
  pos,            \* lines of patients.jsonl consumed by f.readline()
  waiting,        \* the last f.readline() returned "": run() is in time.sleep(1)
  patient,        \* local of run()
  guidelines,     \* local of run()
  resources,      \* local of run()
  decision,       \* local of run()
  outFile,        \* lines of triage_decisions.jsonl
  outSrc,         \* history: for each line of outFile, the input line it was decided from
  marks,          \* history: for each start of run(), the length of outFile at that start
  calls,          \* history: number of requests sent to the reasoning service
  answer,         \* history: what the service did with the request of the patient in hand
  crash           \* the exception that ended run(), "none" while it runs

vars ==
  <<patientsExists, inFile, resExists, resFile, apiKey, pc, pos, waiting, patient,
    guidelines, resources, decision, outFile, outSrc, marks, calls, answer, crash>>

files == <<patientsExists, inFile, resExists, resFile>>
locals == <<patient, guidelines, resources, decision>>
output == <<outFile, outSrc>>

\* the locals of the loop body are dead when the loop returns to readline
NoValue == Null

\* no request is out for the patient in hand
NoAnswer == [k |-> "none", msg |-> <<>>, line |-> BlankLine]

Init ==
  /\ patientsExists \in BOOLEAN
  /\ inFile = <<>>
  /\ resExists \in BOOLEAN
  /\ resFile = <<>>
  /\ apiKey \in ApiKeys
  /\ pc = "run"
  /\ pos = 0
  /\ waiting = FALSE
  /\ patient = NoValue
  /\ guidelines = ""
  /\ resources = NoValue
  /\ decision = NoValue
  /\ outFile = <<>>
  /\ outSrc = <<>>
  /\ marks = <<>>
  /\ calls = 0
  /\ answer = NoAnswer
  /\ crash = "none"

----------------------------------------------------------------------------
\* External writers

\* simulate(): open(DATA_FILE, "a"), write one line
ProducerAppend ==
  /\ Len(inFile) < MaxLines
  /\ \E l \in InputLines : inFile' = Append(inFile, l)
  /\ patientsExists' = TRUE
  /\ UNCHANGED <<resExists, resFile, apiKey, pc, pos, waiting, locals, output, marks, calls, answer, crash>>

\* an external writer appends a snapshot line to resources.jsonl
ResourceAppend ==
  /\ Len(resFile) < MaxRes
  /\ \E l \in ResourceLines : resFile' = Append(resFile, l)
  /\ resExists' = TRUE
  /\ UNCHANGED <<patientsExists, inFile, apiKey, pc, pos, waiting, locals, output, marks, calls, answer, crash>>

----------------------------------------------------------------------------
\* run()

\* run() up to the loop: wait for patients.jsonl, open it, seek to 0
RunStart ==
  /\ pc = "run"
  /\ patientsExists
  /\ pc' = "readline"
  /\ pos' = 0
  /\ waiting' = FALSE
  /\ marks' = Append(marks, Len(outFile))
  /\ UNCHANGED <<files, apiKey, locals, output, calls, answer, crash>>

\* A line of patients.jsonl that reaches the file in two parts is two
\* elements of inFile: the text up to the cut, then the rest with the
\* newline.  "head" cuts inside the text of the record, "text" cuts
\* between the text and its newline.
HeadChunk(v) == [kind |-> "head", val |-> v]
TailChunk(v) == [kind |-> "tail", val |-> v]
TextChunk(v) == [kind |-> "text", val |-> v]
NewlineChunk(v) == [kind |-> "newline", val |-> v]

\* the file ends in the middle of a line
PartialPending(file) ==
  file # <<>> /\ file[Len(file)].kind \in {"head", "text"}

\* number of elements of the file f.readline() consumes at offset p: up
\* to the next newline, or to the end of the file when there is none
Consumed(file, p) ==
  IF file[p + 1].kind \in {"head", "text"} /\ p + 2 <= Len(file) THEN 2 ELSE 1

\* the text f.readline() returns at offset p, as json.loads and strip()
\* see it: a record cut inside its text is JSON in neither part
ReadText(file, p) ==
  LET c == file[p + 1] IN
  IF c.kind \in {"head", "text"} /\ p + 2 <= Len(file) THEN JsonLine(c.val)
  ELSE IF c.kind = "text" THEN JsonLine(c.val)
  ELSE IF c.kind = "newline" THEN BlankLine
  ELSE IF c.kind \in {"head", "tail"} THEN GarbageLine
  ELSE c

\* f.readline() returned a line: blank lines are skipped, json.loads
\* failing is caught, patient.get on a value that is not a dict is not
ReadLine ==
  /\ pc = "readline"
  /\ pos < Len(inFile)
  /\ pos' = pos + Consumed(inFile, pos)
  /\ waiting' = FALSE
  /\ LET line == ReadText(inFile, pos)
         parsed == JsonLoads(line)
     IN  IF IsBlank(line) \/ parsed.exc = "JSONDecodeError"
         THEN /\ pc' = "readline"
              /\ UNCHANGED <<patient, crash>>
         ELSE IF parsed.val.t # "obj"
         THEN /\ pc' = "crashed"
              /\ crash' = "AttributeError"
              /\ patient' = parsed.val
         ELSE /\ pc' = "context"
              /\ patient' = parsed.val
              /\ UNCHANGED crash
  /\ UNCHANGED <<files, apiKey, guidelines, resources, decision, output, marks, calls, answer>>

\* f.readline() returned "": time.sleep(1), then the loop polls again
PollEmpty ==
  /\ pc = "readline"
  /\ pos = Len(inFile)
  /\ waiting' = TRUE
  /\ UNCHANGED <<files, apiKey, pc, pos, locals, output, marks, calls, answer, crash>>

\* guidelines = get_guidelines(); resources = get_latest_resources().
\* guidelines.md is owned by its operators: present or not at this read.
\* JSONDecodeError from get_latest_resources is caught by the except of
\* the loop body, any other exception leaves run()
ResolveContext ==
  /\ pc = "context"
  /\ \E gexists \in BOOLEAN, readable \in BOOLEAN :
       LET r == get_latest_resources(resExists, resFile, readable) IN
       IF r.exc = "none"
       THEN /\ guidelines' = get_guidelines(gexists)
            /\ resources' = r.val
            /\ pc' = "triage"
            /\ UNCHANGED <<patient, crash>>
       ELSE IF r.exc = "JSONDecodeError"
       THEN /\ pc' = "readline"
            /\ patient' = NoValue
            /\ guidelines' = ""
            /\ UNCHANGED <<resources, crash>>
       ELSE /\ pc' = "crashed"
            /\ crash' = r.exc
            /\ guidelines' = get_guidelines(gexists)
            /\ UNCHANGED <<patient, resources>>
  /\ UNCHANGED <<files, apiKey, pos, waiting, decision, output, marks, calls, answer>>

\* TriageWith whose fallback consults the resource snapshot: a bed is
\* reserved when the snapshot lists ICU beds
TriageWith_FallbackReadsResources(answers) ==
  /\ pc = "triage"
  /\ \E response \in answers :
       LET d == triage_patient(patient, guidelines, resources, apiKey, response)
           v == d.val
           w == IF d.exc = "none" /\ "Resource Decision" \in DOMAIN v.o
                THEN Obj([x \in DOMAIN v.o |->
                       IF x = "Resource Decision"
                       THEN [y \in DOMAIN v.o[x] |->
                              IF /\ y = "ICU Assigned"
                                 /\ v.o[x][y] = "Pending Check"
                                 /\ "icu_beds_available" \in DOMAIN resources.o
                              THEN "Bed reserved"
                              ELSE v.o[x][y]]
                       ELSE v.o[x]])
                ELSE v
       IN
       /\ calls' = IF CallsService(resources, apiKey) THEN calls + 1 ELSE calls
       /\ answer' = IF CallsService(resources, apiKey) THEN response ELSE NoAnswer
       /\ IF d.exc = "none"
          THEN /\ decision' = w
               /\ pc' = "persist"
               /\ UNCHANGED crash
          ELSE /\ pc' = "crashed"
               /\ crash' = d.exc
               /\ UNCHANGED decision
  /\ UNCHANGED <<files, apiKey, pos, waiting, patient, guidelines, resources, output, marks>>

\* decision = triage_patient(patient, guidelines, resources)
TriageWith(answers) ==
  /\ pc = "triage"
  /\ \E response \in answers :
       LET d == triage_patient(patient, guidelines, resources, apiKey, response) IN
       /\ calls' = IF CallsService(resources, apiKey) THEN calls + 1 ELSE calls
       /\ answer' = IF CallsService(resources, apiKey) THEN response ELSE NoAnswer
       /\ IF d.exc = "none"
          THEN /\ decision' = d.val
               /\ pc' = "persist"
               /\ UNCHANGED crash
          ELSE /\ pc' = "crashed"
               /\ crash' = d.exc
               /\ UNCHANGED decision
  /\ UNCHANGED <<files, apiKey, pos, waiting, patient, guidelines, resources, output, marks>>

\* Persist writing the new line in front of the lines already in the file
Persist_Prepend ==
  /\ pc = "persist"
  /\ \E writable \in BOOLEAN :
       IF writable
       THEN /\ outFile' = <<JsonDumps(decision)>> \o outFile
            /\ outSrc' = <<pos>> \o outSrc
            /\ pc' = "readline"
            /\ patient' = NoValue
            /\ guidelines' = ""
            /\ resources' = NoValue
            /\ decision' = NoValue
            /\ answer' = NoAnswer
            /\ UNCHANGED crash
       ELSE /\ pc' = "crashed"
            /\ crash' = "OSError"
            /\ UNCHANGED <<locals, output, marks, answer>>
  /\ UNCHANGED <<files, apiKey, pos, waiting, marks, calls>>

\* Persist opening the output file with mode "w": the file is truncated
Persist_Truncate ==
  /\ pc = "persist"
  /\ \E writable \in BOOLEAN :
       IF writable
       THEN /\ outFile' = <<JsonDumps(decision)>>
            /\ outSrc' = <<pos>>
            /\ pc' = "readline"
            /\ patient' = NoValue
            /\ guidelines' = ""
            /\ resources' = NoValue
            /\ decision' = NoValue
            /\ answer' = NoAnswer
            /\ UNCHANGED crash
       ELSE /\ pc' = "crashed"
            /\ crash' = "OSError"
            /\ UNCHANGED <<locals, output, marks, answer>>
  /\ UNCHANGED <<files, apiKey, pos, waiting, marks, calls>>

\* with open(OUTPUT_FILE, "a") as outfile: outfile.write(json.dumps(decision) + "\n");
\* writable = FALSE is open() or write() raising OSError
Persist ==
  /\ pc = "persist"
  /\ \E writable \in BOOLEAN :
       IF writable
       THEN /\ outFile' = Append(outFile, JsonDumps(decision))
            /\ outSrc' = Append(outSrc, pos)
            /\ pc' = "readline"
            /\ patient' = NoValue
            /\ guidelines' = ""
            /\ resources' = NoValue
            /\ decision' = NoValue
            /\ answer' = NoAnswer
            /\ UNCHANGED crash
       ELSE /\ pc' = "crashed"
            /\ crash' = "OSError"
            /\ UNCHANGED <<locals, output, marks, answer>>
  /\ UNCHANGED <<files, apiKey, pos, waiting, marks, calls>>

Triage == TriageWith(Responses(patient))

Next ==
  \/ ProducerAppend
  \/ ResourceAppend
  \/ RunStart
  \/ ReadLine
  \/ PollEmpty
  \/ ResolveContext
  \/ Triage
  \/ Persist

Spec == Init /\ [][Next]_vars

----------------------------------------------------------------------------
\* run() stopped and started again over the same files

\* starts of run() in one behaviour
MaxStarts == 2

\* the process ends (run() has raised, or it is stopped from outside) and
\* main.py is started again: nothing of the earlier process is kept but
\* the files
Restart ==
  /\ pc # "run"
  /\ Len(marks) < MaxStarts
  /\ pc' = "run"
  /\ pos' = 0
  /\ waiting' = FALSE
  /\ patient' = NoValue
  /\ guidelines' = ""
  /\ resources' = NoValue
  /\ decision' = NoValue
  /\ answer' = NoAnswer
  /\ crash' = "none"
  /\ UNCHANGED <<files, apiKey, output, marks, calls>>

NextRestart ==
  \/ Restart
  \/ Next

SpecRestart == Init /\ [][NextRestart]_vars

----------------------------------------------------------------------------
\* run() tailing a file whose producer writes a line in two parts

\* the records a producer writes in two parts
SplitRecords == { P2001, P2002 }

\* a producer has written the text of a record up to some cut
ProducerPrefix ==
  /\ Len(inFile) < MaxLines
  /\ ~PartialPending(inFile)
  /\ \E v \in SplitRecords :
       inFile' \in { Append(inFile, HeadChunk(v)), Append(inFile, TextChunk(v)) }
  /\ patientsExists' = TRUE
  /\ UNCHANGED <<resExists, resFile, apiKey, pc, pos, waiting, locals, output, marks, calls, answer, crash>>

\* the producer writes the rest of the line and its newline
ProducerSuffix ==
  /\ PartialPending(inFile)
  /\ LET c == inFile[Len(inFile)] IN
       inFile' = Append(inFile, IF c.kind = "head" THEN TailChunk(c.val)
                                ELSE NewlineChunk(c.val))
  /\ UNCHANGED <<patientsExists, resExists, resFile, apiKey, pc, pos, waiting, locals, output, marks, calls, answer, crash>>

\* the producer writes a whole line at once
ProducerWhole ==
  /\ ~PartialPending(inFile)
  /\ ProducerAppend

NextPartial ==
  \/ ProducerWhole
  \/ ProducerPrefix
  \/ ProducerSuffix
  \/ ResourceAppend
  \/ RunStart
  \/ ReadLine
  \/ PollEmpty
  \/ ResolveContext
  \/ Triage
  \/ Persist

SpecPartial == Init /\ [][NextPartial]_vars

----------------------------------------------------------------------------
\* main.py started as a script: the credential check in front of run()

\* "sk-..." : the placeholder of the README
KeyPlaceholder ==
  <<"s","k","-",".",".",".">>
\* "sk-... " : the placeholder followed by a space
KeyPadded ==
  <<"s","k","-",".",".","."," ">>
\* "live-key" : a credential of another form
KeyOther ==
  <<"l","i","v","e","-","k","e","y">>
\* "sk-"
KeyPrefix ==
  <<"s","k","-">>

RECURSIVE Strip(_)
\* str.strip()
Strip(x) ==
  IF x = <<>> THEN x
  ELSE IF x[1] = " " THEN Strip(Tail(x))
  ELSE IF x[Len(x)] = " " THEN Strip(SubSeq(x, 1, Len(x) - 1))
  ELSE x

\* str.startswith(prefix)
StartsWith(x, prefix) ==
  Len(x) >= Len(prefix) /\ SubSeq(x, 1, Len(prefix)) = prefix

\* the condition of the if in front of run()
KeyRejected(api_key) ==
  \/ ~Truthy(api_key)
  \/ Strip(api_key.v) = KeyPlaceholder
  \/ ~StartsWith(api_key.v, KeyPrefix)

\* values of OPENAI_API_KEY when the script starts
MainKeys ==
  { Null, Str(<<>>), Str(KeyPlaceholder), Str(KeyPadded), Str(KeyOther), Str(KeyLive) }

InitMain ==
  /\ patientsExists \in BOOLEAN
  /\ inFile = <<>>
  /\ resExists \in BOOLEAN
  /\ resFile = <<>>
  /\ apiKey \in MainKeys
  /\ pc = "main"
  /\ pos = 0
  /\ waiting = FALSE
  /\ patient = NoValue
  /\ guidelines = ""
  /\ resources = NoValue
  /\ decision = NoValue
  /\ outFile = <<>>
  /\ outSrc = <<>>
  /\ marks = <<>>
  /\ calls = 0
  /\ answer = NoAnswer
  /\ crash = "none"

\* Main without the startswith test
Main_NoPrefixTest ==
  /\ pc = "main"
  /\ IF ~Truthy(apiKey) \/ Strip(apiKey.v) = KeyPlaceholder
     THEN pc' = "exited" /\ crash' = "exit(1)"
     ELSE pc' = "run" /\ UNCHANGED crash
  /\ UNCHANGED <<files, apiKey, pos, waiting, locals, output, marks, calls, answer>>

\* the body of if __name__ == "__main__": exit(1) on a rejected key,
\* run() otherwise
Main ==
  /\ pc = "main"
  /\ IF KeyRejected(apiKey)
     THEN pc' = "exited" /\ crash' = "exit(1)"
     ELSE pc' = "run" /\ UNCHANGED crash
  /\ UNCHANGED <<files, apiKey, pos, waiting, locals, output, marks, calls, answer>>

NextMain ==
  \/ Main
  \/ Next

SpecMain == InitMain /\ [][NextMain]_vars

----------------------------------------------------------------------------
\* triage_patient on its own: every argument drawn from a bounded set

TriagePatients ==
  { P2001, P2002, P2003, PNoSymptoms, PNullSymptoms, PAnonymous,
    PatientWith(Num(<<"4","2">>)), PatientWith(Str(<<>>)),
    PatientWith(Str(SymMildCough)), PatientWith(Str(SymSevereFracture)),
    PatientWith(Str(SymChestPainUpper)), PatientWith(Str(SymUnbroken)),
    PatientWith(Str(SymSever)) }

TriageResources == { EmptyObj, ResA, Arr }

TriageKeys == { Null, Str(<<>>), Str(KeyLive) }

InitTriage ==
  /\ patientsExists = TRUE
  /\ inFile = <<>>
  /\ resExists = FALSE
  /\ resFile = <<>>
  /\ apiKey \in TriageKeys
  /\ pc = "triage"
  /\ pos = 0
  /\ waiting = FALSE
  /\ patient \in TriagePatients
  /\ guidelines \in {"", "guidelines.md"}
  /\ resources \in TriageResources
  /\ decision = NoValue
  /\ outFile = <<>>
  /\ outSrc = <<>>
  /\ marks = <<>>
  /\ calls = 0
  /\ answer = NoAnswer
  /\ crash = "none"

TriageCall == TriageWith(AllResponses(patient))

NextTriage == TriageCall

SpecTriage == InitTriage /\ [][NextTriage]_vars

----------------------------------------------------------------------------
\* run() over input logs of two records that share symptoms, ids or names

PairLines ==
  { JsonLine(P2001), JsonLine(PAnonymous),
    JsonLine(PatientWith(Str(SymSevereFracture))) }

InitPair ==
  /\ patientsExists = TRUE
  /\ inFile \in { <<a, b>> : a \in PairLines, b \in PairLines }
  /\ resExists \in BOOLEAN
  /\ resFile = <<>>
  /\ apiKey = Str(KeyLive)
  /\ pc = "run"
  /\ pos = 0
  /\ waiting = FALSE
  /\ patient = NoValue
  /\ guidelines = ""
  /\ resources = NoValue
  /\ decision = NoValue
  /\ outFile = <<>>
  /\ outSrc = <<>>
  /\ marks = <<>>
  /\ calls = 0
  /\ answer = NoAnswer
  /\ crash = "none"

NextPair ==
  \/ ResourceAppend
  \/ RunStart
  \/ ReadLine
  \/ PollEmpty
  \/ ResolveContext
  \/ Triage
  \/ Persist

SpecPair == InitPair /\ [][NextPair]_vars

----------------------------------------------------------------------------
\* get_latest_resources on its own: every resource log up to MaxResLog lines

MaxResLog == 4

RECURSIVE Logs(_)
Logs(n) ==
  IF n = 0 THEN { <<>> }
  ELSE Logs(n - 1) \cup { Append(f, l) : f \in Logs(n - 1), l \in ResourceLines }

InitRes ==
  /\ patientsExists = TRUE
  /\ inFile = << JsonLine(P2001) >>
  /\ resExists \in BOOLEAN
  /\ resFile \in Logs(MaxResLog)
  /\ resExists \/ resFile = <<>>
  /\ apiKey = Str(KeyLive)
  /\ pc = "context"
  /\ pos = 1
  /\ waiting = FALSE
  /\ patient = P2001
  /\ guidelines = ""
  /\ resources = NoValue
  /\ decision = NoValue
  /\ outFile = <<>>
  /\ outSrc = <<>>
  /\ marks = <<>>
  /\ calls = 0
  /\ answer = NoAnswer
  /\ crash = "none"

NextRes == ResolveContext

SpecRes == InitRes /\ [][NextRes]_vars

TypeOK ==
  /\ pc \in {"run", "readline", "context", "triage", "persist", "crashed"}
  /\ pos \in 0..Len(inFile)
  /\ Len(outFile) = Len(outSrc)
----------------------------------------------------------------------------
\* run() of main_pathway_original.py: the resources table is reduced to one
\* row that is joined to every patient

Digits ==
  <<"0","1","2","3","4","5","6","7","8","9">>

RECURSIVE IntOf(_)
\* the integer a JSON number text denotes
IntOf(chars) ==
  IF chars = <<>> THEN 0
  ELSE 10 * IntOf(SubSeq(chars, 1, Len(chars) - 1))
       + ((CHOOSE i \in 1..10 : Digits[i] = chars[Len(chars)]) - 1)

\* pw.reducers.max over one integer column of the rows of the log
MaxColumn(file, column) ==
  LET rows == { file[i].val : i \in 1..Len(file) } IN
  (CHOOSE r \in rows :
     \A q \in rows : IntOf(q.o[column].v) <= IntOf(r.o[column].v)).o[column]

\* resources.reduce(join_key=1, icu_beds_available=max, doctors_on_call=max,
\* nurses_available=max); every roster of the modelled rows is the empty list
pathway_reduce(file) ==
  Obj([icu_beds_available |-> MaxColumn(file, "icu_beds_available"),
       doctors_on_call |-> Arr,
       nurses_available |-> MaxColumn(file, "nurses_available")])

ResC ==
  Obj([icu_beds_available |-> Num(<<"1">>), doctors_on_call |-> Arr, nurses_available |-> Num(<<"7">>)])

\* rows of resources.jsonl that conform to ResourceSchema
PathwayRows == { JsonLine(ResA), JsonLine(ResB), JsonLine(ResC) }

RECURSIVE RowLogs(_)
RowLogs(n) ==
  IF n = 0 THEN { <<>> }
  ELSE RowLogs(n - 1) \cup { Append(f, l) : f \in RowLogs(n - 1), l \in PathwayRows }

InitPathway ==
  /\ patientsExists = TRUE
  /\ inFile = << JsonLine(P2001) >>
  /\ resExists = TRUE
  /\ resFile \in RowLogs(MaxResLog)
  /\ apiKey = Str(KeyLive)
  /\ pc = "pathway_join"
  /\ pos = 1
  /\ waiting = FALSE
  /\ patient = P2001
  /\ guidelines = "guidelines.md"
  /\ resources = NoValue
  /\ decision = NoValue
  /\ outFile = <<>>
  /\ outSrc = <<>>
  /\ marks = <<>>
  /\ calls = 0
  /\ answer = NoAnswer
  /\ crash = "none"

\* the join of the patient with the reduced resources row: with an empty
\* resources table there is no row and the patient is not triaged
PathwayJoin ==
  /\ pc = "pathway_join"
  /\ IF resFile = <<>>
     THEN pc' = "pathway_unjoined" /\ UNCHANGED resources
     ELSE pc' = "pathway_triage" /\ resources' = pathway_reduce(resFile)
  /\ UNCHANGED <<files, apiKey, pos, waiting, patient, guidelines, decision,
                 output, marks, calls, answer, crash>>

NextPathway == PathwayJoin

SpecPathway == InitPathway /\ [][NextPathway]_vars

----------------------------------------------------------------------------
\* Vocabulary of the properties

\* the line is the text of a JSON object: a patient record
ValidRecord(line) == line.kind = "json" /\ line.val.t = "obj"

\* number of output lines decided from input line i
Decided(i) == Cardinality({ k \in 1..Len(outSrc) : outSrc[k] = i })

DecisionKeys ==
  { "Patient Summary", "Triage Decision", "Resource Decision", "Alerts" }

FallbackTags ==
  { "Fallback: Critical keywords detected in symptoms.",
    "Fallback: Potential fracture detected.",
    "Fallback: Minor symptoms detected." }

\* the value has the four sections and a priority of the scale
HasDecisionShape(d) ==
  /\ d.t = "obj"
  /\ DOMAIN d.o = DecisionKeys
  /\ d.o["Triage Decision"]["Priority Level"] \in Priorities

\* a decision whose reasoning text carries the fallback marker
IsFallbackDecision(d) ==
  /\ HasDecisionShape(d)
  /\ d.o["Triage Decision"]["Reasoning"].text \in FallbackTags

\* the request of the patient in hand failed: create() raised, or the
\* content does not parse
AnswerFailed ==
  \/ answer.k = "raise"
  \/ answer.k = "content" /\ JsonLoads(answer.line).exc # "none"

\* the output value names the patient of the input value
NamesPatient(d, p) ==
  IF DOMAIN d.o = DecisionKeys
  THEN d.o["Patient Summary"]["ID"] = Get(p, "patient_id")
  ELSE "patient_id" \in DOMAIN d.o => d.o["patient_id"] = Get(p, "patient_id")

----------------------------------------------------------------------------
\* C1: once the loop of run() has moved past a line of the input log that
\* is a valid patient record, the output log holds exactly one record
\* decided from that line, whatever the resource log holds.
C1_EveryValidRecordDecided ==
  \A i \in 1..Len(inFile) :
     ValidRecord(inFile[i]) =>
       /\ Decided(i) <= 1
       /\ (pc = "readline" /\ i <= pos) => Decided(i) = 1

\* C2: the output log lists decisions in the order their records were
\* read: the sources of the output lines are strictly increasing, each is
\* a valid record already read whose patient the line names, and the
\* record in hand has no line yet, so its decision is written before the
\* next record is read.
C2_DecisionsInReadOrder ==
  /\ Len(outSrc) = Len(outFile)
  /\ \A k \in 1..Len(outFile) :
       /\ outSrc[k] \in 1..pos
       /\ ValidRecord(inFile[outSrc[k]])
       /\ NamesPatient(outFile[k].val, inFile[outSrc[k]].val)
       /\ \A j \in 1..(k - 1) : outSrc[j] < outSrc[k]
  /\ pc \in {"context", "triage", "persist"} => Decided(pos) = 0
  /\ pc = "readline" =>
       \A i \in 1..pos : Decided(i) > 0 => outSrc[Len(outSrc)] >= i

\* C2 witness: two records were read and decided, one after the other
C2_TwoDecisionsWritten ==
  /\ pc = "readline"
  /\ outSrc = <<1, 2>>
  /\ outFile[1].val # outFile[2].val
  /\ Get(inFile[1].val, "patient_id") # Get(inFile[2].val, "patient_id")

\* C3: a line that is not a valid patient record never ends run() and
\* never yields an output record.
C3_MalformedLineSkipped ==
  \A i \in 1..pos :
     ~ValidRecord(inFile[i]) =>
       /\ Decided(i) = 0
       /\ ~(pc = "crashed" /\ i = pos)

\* C4: when the request for a patient fails, by an exception or by content
\* that does not parse, run() does not end and the decision in hand is a
\* fallback decision.
C4_FailedCallFallsBack ==
  AnswerFailed =>
    /\ pc \in {"persist", "crashed"}
    /\ ~(pc = "crashed" /\ crash # "OSError")
    /\ IsFallbackDecision(decision)

\* C5: without a credential no request is sent and every record written
\* is a fallback decision.
C5_NoCredentialFallsBack ==
  ~Truthy(apiKey) =>
    /\ calls = 0
    /\ \A k \in 1..Len(outFile) : IsFallbackDecision(outFile[k].val)

\* the lower-cased symptoms text the fallback matches its keywords against
SymptomsText(p) == Lower(GetDefault(p, "symptoms", Str(<<>>)).v)

\* C6: a fallback decision has priority Critical and ICU Required Yes when
\* the lower-cased symptoms contain "chest pain", "severe" or "difficulty
\* breathing"; else Medium and No when they contain "broken" or
\* "fracture"; else Low and No; ICU Required is Yes exactly when the
\* priority is Critical.
C6_FallbackKeywordPrecedence ==
  (pc = "persist" /\ IsFallbackDecision(decision)) =>
    LET s == SymptomsText(patient)
        rule1 == \/ Contains(s, KwChestPain)
                 \/ Contains(s, KwSevere)
                 \/ Contains(s, KwDifficultyBreathing)
        rule2 == Contains(s, KwBroken) \/ Contains(s, KwFracture)
        priority == decision.o["Triage Decision"]["Priority Level"]
        icu == decision.o["Resource Decision"]["ICU Required"]
    IN  /\ rule1 => priority = "Critical" /\ icu = "Yes"
        /\ (~rule1 /\ rule2) => priority = "Medium" /\ icu = "No"
        /\ (~rule1 /\ ~rule2) => priority = "Low" /\ icu = "No"
        /\ (icu = "Yes") <=> (priority = "Critical")
        /\ Get(patient, "symptoms") = Str(SymChestPainUpper) => priority = "Critical"
        /\ Get(patient, "symptoms") = Str(SymP2002) => priority = "Medium"
        /\ Get(patient, "symptoms") = Str(SymMildCough) => priority = "Low"

\* C6 witness: the fallback decided "Severe fracture", which holds a
\* keyword of both rules, as Critical
C6_BothRulesMatch ==
  /\ pc = "persist"
  /\ IsFallbackDecision(decision)
  /\ Get(patient, "symptoms") = Str(SymSevereFracture)
  /\ decision.o["Triage Decision"]["Priority Level"] = "Critical"
  /\ decision.o["Resource Decision"]["ICU Required"] = "Yes"

\* C7: once the request has failed, triage_patient raises nothing: the
\* fallback returns a decision for every accepted patient record.
C7_FallbackNeverRaises ==
  pc = "crashed" => ~AnswerFailed

\* C8: every line of the output log is a record of the TriageDecision
\* shape.
C8_OutputHasDecisionShape ==
  \A k \in 1..Len(outFile) :
     outFile[k].kind = "json" /\ HasDecisionShape(outFile[k].val)

RECURSIVE LastValid(_)
\* index of the last line of the log that parses as JSON, 0 if none
LastValid(file) ==
  IF file = <<>> THEN 0
  ELSE IF file[Len(file)].kind = "json" THEN Len(file)
  ELSE LastValid(SubSeq(file, 1, Len(file) - 1))

\* C9: on a readable log get_latest_resources returns the last line that
\* parses, skipping blank and malformed lines, and the empty snapshot
\* when there is none.
C9_LatestIsLastValid ==
  (pc # "context" /\ crash = "none") =>
    /\ pc = "triage"
    /\ resources = IF LastValid(resFile) = 0 THEN EmptyObj
                   ELSE resFile[LastValid(resFile)].val

\* C10: resolving the context never ends run() and never drops the
\* patient in hand: from the context step the loop only goes on to triage.
C10_ResourceFailureKeepsPatient ==
  [][pc = "context" => pc' \in {"context", "triage"}]_vars

\* s is an initial segment of t
IsPrefix(s, t) ==
  Len(s) <= Len(t) /\ SubSeq(t, 1, Len(s)) = s

\* C11: the output log is append-only: every step leaves the lines written
\* so far as an initial segment of the log, unaltered.
C11_OutputAppendOnly ==
  [][IsPrefix(outFile, outFile')]_vars

\* C11 witness: a line was appended behind a line written earlier
C11_LogHasGrown ==
  Len(outFile) = 2 /\ pc = "readline"

\* C12: a failed append of the decision is retried with the same decision:
\* from the persist position run() either stays there, with the decision,
\* the read position and the number of requests unchanged, or has written.
C12_FailedWriteIsRetried ==
  [][pc = "persist" =>
       /\ pc' \in {"persist", "readline"}
       /\ pc' = "persist" =>
            (decision' = decision /\ pos' = pos /\ calls' = calls)]_vars

\* C13: in a fallback decision the alert level is Urgent when the priority
\* is Critical and Normal otherwise, and the alert message states the
\* fallback mode and carries the name of the record.
C13_FallbackAlert ==
  (pc = "persist" /\ IsFallbackDecision(decision)) =>
    LET alerts == decision.o["Alerts"]
        priority == decision.o["Triage Decision"]["Priority Level"]
    IN  /\ alerts["Alert Level"] =
             (IF priority = "Critical" THEN "Urgent" ELSE "Normal")
        /\ alerts["Alert Message"].text = "System Alert: Fallback mode used for "
        /\ alerts["Alert Message"].name = Get(patient, "name")

\* C13 witness: a Critical fallback decision with an Urgent alert for a
\* named patient
C13_UrgentAlert ==
  /\ pc = "persist"
  /\ IsFallbackDecision(decision)
  /\ decision.o["Triage Decision"]["Priority Level"] = "Critical"
  /\ decision.o["Alerts"]["Alert Level"] = "Urgent"
  /\ decision.o["Alerts"]["Alert Message"].name = Get(P2003, "name")

\* the patient record output line k was decided from
SourceOf(k) == inFile[outSrc[k]].val

\* output lines j and k are fallback decisions made for the same symptoms
\* after the same failure (as far as the decision records it)
SameFallbackInput(j, k) ==
  /\ IsFallbackDecision(outFile[j].val)
  /\ IsFallbackDecision(outFile[k].val)
  /\ Get(SourceOf(j), "symptoms") = Get(SourceOf(k), "symptoms")
  /\ outFile[j].val.o["Triage Decision"]["Reasoning"].err =
       outFile[k].val.o["Triage Decision"]["Reasoning"].err

\* C14 as stated: two fallback decisions for identical symptoms and
\* identical failure reason are identical.
C14_SameSymptomsSameDecision ==
  \A j, k \in 1..Len(outFile) :
     SameFallbackInput(j, k) => outFile[j] = outFile[k]

\* C14 as amended: two fallback decisions for identical symptoms and
\* failure reason agree on the triage section, the resource section and the
\* alert level, and are identical when the records also agree on id and
\* name, whatever resource snapshot and guidelines each was decided under.
C14_SameRecordSameDecision ==
  \A j, k \in 1..Len(outFile) :
     SameFallbackInput(j, k) =>
       LET dj == outFile[j].val.o
           dk == outFile[k].val.o
       IN  /\ dj["Triage Decision"] = dk["Triage Decision"]
           /\ dj["Resource Decision"] = dk["Resource Decision"]
           /\ dj["Alerts"]["Alert Level"] = dk["Alerts"]["Alert Level"]
           /\ ( /\ Get(SourceOf(j), "patient_id") = Get(SourceOf(k), "patient_id")
                /\ Get(SourceOf(j), "name") = Get(SourceOf(k), "name") )
              => outFile[j] = outFile[k]

\* C14 witness: the same record was decided twice by the fallback, the
\* second time with a resource log that had been written to
C14_SameRecordTwice ==
  /\ Len(outFile) = 2
  /\ inFile[1] = inFile[2]
  /\ SameFallbackInput(1, 2)
  /\ outFile[1] = outFile[2]
  /\ resFile # <<>>

\* C15: run() never ends while a valid record of the input log is still
\* unread, so a record appended behind the read position is read later.
C15_TailNeverStops ==
  \A i \in 1..Len(inFile) :
     (ValidRecord(inFile[i]) /\ i > pos) => pc # "crashed"

\* the most recent valid record of the log, the empty snapshot if none
LatestSnapshot(file) ==
  IF LastValid(file) = 0 THEN EmptyObj ELSE file[LastValid(file)].val

\* C16: the snapshot handed to a patient's triage is the most recent valid
\* record of the resource log at the step that resolves it: one record of
\* the log, not a mix of several, and not an older one.
C16_SnapshotIsLatestRecord ==
  [][(pc' \in {"triage", "pathway_triage"} /\ pc' # pc) =>
       resources' = LatestSnapshot(resFile)]_vars

\* C17: started as a script, main.py exits with code 1 before run() when
\* the key is unset, empty, the placeholder, or does not start with "sk-",
\* having read no input line and written no output record; run() is
\* entered only with a key that starts with "sk-".
C17_StartupGuard ==
  LET bad == \/ apiKey = Null
             \/ apiKey.v = <<>>
             \/ apiKey.v = KeyPlaceholder
             \/ ~StartsWith(apiKey.v, KeyPrefix)
  IN  /\ bad => /\ pc \in {"main", "exited"}
                /\ pos = 0 /\ outFile = <<>> /\ calls = 0
      /\ pc = "exited" => crash = "exit(1)" /\ pos = 0 /\ outFile = <<>>
      /\ pc \notin {"main", "exited"} =>
           apiKey.t = "str" /\ StartsWith(apiKey.v, KeyPrefix)

\* C17 witness: the script has exited on a key that does not start with
\* "sk-"
C17_ExitedOnForeignKey ==
  /\ pc = "exited"
  /\ apiKey = Str(KeyOther)
  /\ crash = "exit(1)"
  /\ inFile # <<>>

\* C18: a patient record whose line reached the file in two parts, with
\* the loop of run() now past both, has exactly one decision in the
\* output log, whenever run() read between the two parts.
C18_SplitRecordDecidedOnce ==
  \A i \in 1..Len(inFile) :
    ( /\ inFile[i].kind \in {"head", "text"}
      /\ i + 1 <= Len(inFile)
      /\ pos >= i + 1
      /\ pc = "readline" )
    => Decided(i) + Decided(i + 1) = 1

\* output lines of the run that started at mark m (up to the next start)
\* decided from input line i
DecidedInRun(r, i) ==
  LET lo == marks[r]
      hi == IF r < Len(marks) THEN marks[r + 1] ELSE Len(outFile)
  IN  Cardinality({ k \in (lo + 1)..hi : outSrc[k] = i })

\* C19: a restarted run() reads from offset 0, and once its loop has
\* moved past a line that the earlier run decided, the output log holds
\* one further decision from that line, the earlier output unchanged.
C19_RestartDecidesAgain ==
  (Len(marks) = 2 /\ pc = "readline") =>
    \A i \in 1..pos :
      DecidedInRun(1, i) = 1 => DecidedInRun(2, i) = 1 /\ Decided(i) = 2

====
